---- MODULE Spec2Model ----
(***************************************************************************)
(* rulechef: the thread-safe ExampleBuffer (src/rulechef/buffer.py), the    *)
(* learning coordinators (src/rulechef/coordinator.py) and the span        *)
(* evaluator (src/rulechef/evaluation.py).                                 *)
(*                                                                         *)
(* Threads call the public operations of one shared ExampleBuffer.  Each   *)
(* operation is split at the points where another thread can run: the      *)
(* call, the acquisition of self.lock, the statements of the body, the     *)
(* release of the lock.  Python lists are objects: `lists` is the heap of  *)
(* list objects, lists[0] is self.examples, lists[t] the list object most  *)
(* recently returned to thread t.                                          *)
(***************************************************************************)
EXTENDS Integers, Sequences, FiniteSets, TLC

\* ---------------------------------------------------------------- bounds
NThreads == 2        \* threads using the buffer
MaxAdds  == 2        \* add_* calls in one behaviour
MaxOps   == 3        \* calls of public operations in one behaviour
MaxLiveOps == 2      \* the same, in the behaviours checked for progress
MaxCycleOps == 5     \* the same, in the behaviours of the learning cycle
MaxBuf   == 2        \* examples in a buffer handed to a coordinator
MaxTrigger == 2      \* largest trigger_threshold of a coordinator
MaxCorrection == 1   \* largest correction_threshold of a coordinator
MaxConcOps == 3      \* calls in one behaviour of the coordinator with producers
MaxSpans == 2        \* spans in a list handed to evaluate_spans
MaxOffset == 3       \* largest start or end of a span handed to span_iou

Threads == 1..NThreads
Orch    == 1         \* the thread that plays the orchestrator in SpecOrch

\* ------------------------------------------------------- the operations
AddOps  == {"add_llm_observation", "add_human_example", "add_human_correction"}
ListOps == {"get_all_examples", "get_new_examples", "get_new_corrections"}
Ops     == AddOps \cup ListOps \cup {"mark_learned", "get_stats", "clear"}

NoRef   == -1        \* the thread holds no returned list
BufRef  == 0         \* the list object self.examples

\* ObservedExample: `input` stands for the payload of the call (the k-th
\* add call passes payload k); timestamp and metadata play no role.
ObservedExample(src, corr, payload) ==
    [source |-> src, is_correction |-> corr, input |-> payload]

NoStats ==
    [total_examples |-> -1, new_examples |-> -1, new_corrections |-> -1,
     llm_observations |-> -1, human_examples |-> -1]

VARIABLES
    lists,          \* heap of list objects: lists[0] is self.examples
    last_learn_index,
    lock,           \* 0 when self.lock is free, else the thread holding it
    pc,             \* where each thread is inside its operation
    op,             \* the operation each thread is in, or whose returned list it holds
    arg,            \* the payload a thread passes to its add_* call
    retList,        \* reference to the list returned to the thread, or NoRef
    retStats,       \* mapping built by the thread's get_stats, or NoStats
    opsLeft,        \* calls still allowed in this behaviour
    calls,          \* history: number of add_* calls made
    clearedFrom,    \* history: cursor value when the last clear() began, -1 before any clear
    snap,           \* history: content of the returned list when it was returned
    committed,      \* history: buffer state after the last complete operation
    lastMark,       \* history: thread whose mark_learned moved the cursor last (0: none)
    sinceMark,      \* history: examples appended since the cursor last moved
    readClean,      \* history: the thread's get_new_corrections read after a mark_learned with no add since
    marksSinceAdd,  \* history: mark_learned calls since the last add or clear
    totalAtMark,    \* history: len(examples) at the last mark_learned
    considered,     \* history: payloads seen in get_new_examples by Orch
    trigger_threshold,      \* SimpleCoordinator attribute
    correction_threshold,   \* SimpleCoordinator attribute
    verbose,                \* SimpleCoordinator attribute
    current_rules,  \* the rules passed to the last should_trigger_learning
    decision,       \* CoordinationDecision returned last, or NoDecision
    analysis,       \* mapping returned by the last analyze_buffer, or NoAnalysis
    stdout,         \* number of lines the last coordinator call printed
    lastCall,       \* the coordinator method called last
    raised,         \* the exception the last coordinator call ended with, or "none"
    predictions,        \* evaluate_spans argument
    gold_standard,      \* evaluate_spans argument
    exact_match_only,   \* evaluate_spans argument
    iou_threshold,      \* evaluate_spans argument, a ratio <<numerator, denominator>>
    next_pred,      \* number of predictions the loop of evaluate_spans has processed
    matched_gold,   \* evaluate_spans local: the consumed gold indices (0-based)
    exact_matches,  \* evaluate_spans local
    partial_matches,    \* evaluate_spans local
    boundary_errors,    \* evaluate_spans local
    metrics,        \* the mapping evaluate_spans returned, or NoMetrics
    evalpc,         \* "none": no evaluation, "run": inside evaluate_spans, "done": returned
    call,           \* the evaluation helper called on its own, with its arguments
    result          \* what that call returned

coordVars == <<trigger_threshold, correction_threshold, verbose, current_rules,
               decision, analysis, stdout, lastCall, raised>>

evalVars == <<predictions, gold_standard, exact_match_only, iou_threshold,
              next_pred, matched_gold, exact_matches, partial_matches,
              boundary_errors, metrics, evalpc, call, result>>

\* what the buffer operations do not touch
notBuffer == <<coordVars, evalVars>>

vars == <<lists, last_learn_index, lock, pc, op, arg, retList, retStats,
          opsLeft, calls, clearedFrom, snap, committed, lastMark, sinceMark,
          readClean, marksSinceAdd, totalAtMark, considered, notBuffer>>

hist == <<calls, clearedFrom, snap, committed, lastMark, sinceMark,
          readClean, marksSinceAdd, totalAtMark, considered>>

\* the buffer and its callers, without the budget of calls
bufState == <<lists, last_learn_index, lock, pc, op, arg, retList, retStats, hist>>

examples == lists[BufRef]

\* ------------------------------------------------------------- helpers
\* lst[i:] of a Python list, 0-based i, 0 <= i
SliceFrom(lst, i) ==
    IF i >= Len(lst) THEN <<>> ELSE SubSeq(lst, i + 1, Len(lst))

IsCorrection(e) == e.is_correction
IsLlm(e)        == e.source = "llm"
IsHumanPlain(e) == e.source = "human" /\ ~e.is_correction

Payloads(lst) == {lst[i].input : i \in 1..Len(lst)}

\* history: what the orchestrator's get_new_examples has shown it so far
Seen(t, lst) ==
    IF t = Orch /\ op[t] = "get_new_examples"
    THEN considered \cup Payloads(lst) ELSE considered

\* ---------------------------------------------------------------- Init
\* ExampleBuffer.__init__; n calls will be made on the new buffer
NewBuffer(n) ==
    /\ lists = [r \in 0..NThreads |-> <<>>]
    /\ last_learn_index = 0
    /\ lock = 0
    /\ pc = [t \in Threads |-> "idle"]
    /\ op = [t \in Threads |-> "none"]
    /\ arg = [t \in Threads |-> 0]
    /\ retList = [t \in Threads |-> NoRef]
    /\ retStats = [t \in Threads |-> NoStats]
    /\ opsLeft = n
    /\ calls = 0
    /\ clearedFrom = -1
    /\ snap = [t \in Threads |-> <<>>]
    /\ committed = [examples |-> <<>>, last_learn_index |-> 0]
    /\ lastMark = 0
    /\ sinceMark = <<>>
    /\ readClean = [t \in Threads |-> FALSE]
    /\ marksSinceAdd = 0
    /\ totalAtMark = 0
    /\ considered = {}

NoDecision == [should_learn |-> FALSE, strategy |-> "none", reasoning |-> "none",
               max_iterations |-> 0, metadata |-> <<>>]
NoAnalysis == <<>>
NoCall     == [coordinator |-> "none", method |-> "none"]

\* SimpleCoordinator.__init__ with thresholds tt, ct; nothing called yet
NewCoordinator(tt, ct, v) ==
    /\ trigger_threshold = tt
    /\ correction_threshold = ct
    /\ verbose = v
    /\ current_rules = "None"
    /\ decision = NoDecision
    /\ analysis = NoAnalysis
    /\ stdout = 0
    /\ lastCall = NoCall
    /\ raised = "none"

\* SimpleCoordinator(): the default thresholds
DefaultCoordinator == NewCoordinator(50, 10, TRUE)

NoMetrics == <<>>
NoFn      == [fn |-> "none"]
NoResult  == <<>>

\* evaluate_spans called with predictions P and gold G, at its first statement
Evaluation(P, G, emo, thr, at) ==
    /\ predictions = P
    /\ gold_standard = G
    /\ exact_match_only = emo
    /\ iou_threshold = thr
    /\ next_pred = 0
    /\ matched_gold = {}
    /\ exact_matches = 0
    /\ partial_matches = 0
    /\ boundary_errors = <<>>
    /\ metrics = NoMetrics
    /\ evalpc = at
    /\ call = NoFn
    /\ result = NoResult

\* evaluate_spans is not called
NoEvaluation == Evaluation(<<>>, <<>>, FALSE, <<1, 2>>, "none")

Init == NewBuffer(MaxOps) /\ DefaultCoordinator /\ NoEvaluation

InitLive == NewBuffer(MaxLiveOps) /\ DefaultCoordinator /\ NoEvaluation

InitOrch == NewBuffer(MaxCycleOps) /\ DefaultCoordinator /\ NoEvaluation

\* ------------------------------------------------------------- actions
\* A thread calls operation o.  The result of its previous call is dropped.
\* get_new_corrections has no `with self.lock` of its own: it first has to
\* call get_new_examples ("deleg"); every other operation goes straight to
\* its `with self.lock` ("wait").
Invoke(t, o) ==
    /\ pc[t] = "idle"
    /\ opsLeft > 0
    /\ o \in AddOps => calls < MaxAdds
    /\ opsLeft' = opsLeft - 1
    /\ op' = [op EXCEPT ![t] = o]
    /\ pc' = [pc EXCEPT ![t] = IF o = "get_new_corrections" THEN "deleg" ELSE "wait"]
    /\ calls' = IF o \in AddOps THEN calls + 1 ELSE calls
    /\ arg' = [arg EXCEPT ![t] = IF o \in AddOps THEN calls + 1 ELSE 0]
    /\ retList' = [retList EXCEPT ![t] = NoRef]
    /\ retStats' = [retStats EXCEPT ![t] = NoStats]
    /\ lists' = [lists EXCEPT ![t] = <<>>]
    /\ snap' = [snap EXCEPT ![t] = <<>>]
    /\ readClean' = [readClean EXCEPT ![t] = FALSE]
    /\ UNCHANGED <<notBuffer, last_learn_index, lock, clearedFrom, committed, lastMark,
                   sinceMark, marksSinceAdd, totalAtMark, considered>>

Call(t) == \E o \in Ops : Invoke(t, o)

\* Variant: get_new_corrections wraps its body in `with self.lock:` and then
\* calls get_new_examples, which asks for the same lock.
Delegate_locked(t) ==
    /\ pc[t] = "deleg"
    /\ lock = 0
    /\ lock' = t
    /\ pc' = [pc EXCEPT ![t] = "wait"]
    /\ UNCHANGED <<notBuffer, lists, last_learn_index, op, arg, retList, retStats,
                   opsLeft, hist>>

\* get_new_corrections, line 93: calls self.get_new_examples() holding nothing
Delegate(t) ==
    /\ pc[t] = "deleg"
    /\ pc' = [pc EXCEPT ![t] = "wait"]
    /\ UNCHANGED <<notBuffer, lists, last_learn_index, lock, op, arg, retList, retStats,
                   opsLeft, hist>>

\* Variant: the body is entered without waiting for the lock.
Acquire_unguarded(t) ==
    /\ pc[t] = "wait"
    /\ lock' = t
    /\ pc' = [pc EXCEPT ![t] = "cs"]
    /\ UNCHANGED <<notBuffer, lists, last_learn_index, op, arg, retList, retStats,
                   opsLeft, hist>>

\* `with self.lock:` entry: threading.Lock is not reentrant
Acquire(t) ==
    /\ pc[t] = "wait"
    /\ lock = 0
    /\ lock' = t
    /\ pc' = [pc EXCEPT ![t] = "cs"]
    /\ UNCHANGED <<notBuffer, lists, last_learn_index, op, arg, retList, retStats,
                   opsLeft, hist>>

\* Variant: the new example overwrites the last slot instead of extending
\* the list (self.examples[-1:] = [e]).
AppendExample_overwrite(t, e) ==
    /\ pc[t] = "cs"
    /\ lists' = [lists EXCEPT ![BufRef] =
                    IF @ = <<>> THEN <<e>> ELSE [@ EXCEPT ![Len(@)] = e]]
    /\ pc' = [pc EXCEPT ![t] = "rel"]
    /\ committed' = [examples |-> lists'[BufRef],
                     last_learn_index |-> last_learn_index]
    /\ marksSinceAdd' = 0
    /\ sinceMark' = Append(sinceMark, e)
    /\ UNCHANGED <<notBuffer, last_learn_index, lock, op, arg, retList, retStats, opsLeft,
                   calls, clearedFrom, snap, lastMark, readClean, totalAtMark,
                   considered>>

\* self.examples.append(e), the whole body of the three add_* methods
AppendExample(t, e) ==
    /\ pc[t] = "cs"
    /\ lists' = [lists EXCEPT ![BufRef] = Append(@, e)]
    /\ pc' = [pc EXCEPT ![t] = "rel"]
    /\ committed' = [examples |-> Append(examples, e),
                     last_learn_index |-> last_learn_index]
    /\ marksSinceAdd' = 0
    /\ sinceMark' = Append(sinceMark, e)
    /\ UNCHANGED <<notBuffer, last_learn_index, lock, op, arg, retList, retStats, opsLeft,
                   calls, clearedFrom, snap, lastMark, readClean, totalAtMark,
                   considered>>

add_llm_observation(t) ==
    /\ op[t] = "add_llm_observation"
    /\ AppendExample(t, ObservedExample("llm", FALSE, arg[t]))

add_human_example(t) ==
    /\ op[t] = "add_human_example"
    /\ AppendExample(t, ObservedExample("human", FALSE, arg[t]))

\* variant: the correction is stored with source "llm"
add_human_correction_llm(t) ==
    /\ op[t] = "add_human_correction"
    /\ AppendExample(t, ObservedExample("llm", TRUE, arg[t]))

add_human_correction(t) ==
    /\ op[t] = "add_human_correction"
    /\ AppendExample(t, ObservedExample("human", TRUE, arg[t]))

\* A new list object with content c is returned to thread t.
ReturnCopy(t, c) ==
    /\ lists' = [lists EXCEPT ![t] = c]
    /\ retList' = [retList EXCEPT ![t] = t]
    /\ snap' = [snap EXCEPT ![t] = c]
    /\ readClean' = [readClean EXCEPT ![t] =
                        /\ op[t] = "get_new_corrections"
                        /\ (pc[t] = "cs" /\ marksSinceAdd >= 1) \/ (pc[t] = "filt" /\ @)]

\* Variant: return self.examples (the live list, no copy).
get_all_examples_alias(t) ==
    /\ pc[t] = "cs"
    /\ op[t] = "get_all_examples"
    /\ retList' = [retList EXCEPT ![t] = BufRef]
    /\ snap' = [snap EXCEPT ![t] = examples]
    /\ readClean' = [readClean EXCEPT ![t] = FALSE]
    /\ pc' = [pc EXCEPT ![t] = "rel"]
    /\ UNCHANGED <<notBuffer, lists, last_learn_index, lock, op, arg, retStats, opsLeft,
                   calls, clearedFrom, committed, lastMark, sinceMark,
                   marksSinceAdd, totalAtMark, considered>>

\* return self.examples.copy()
get_all_examples(t) ==
    /\ pc[t] = "cs"
    /\ op[t] = "get_all_examples"
    /\ ReturnCopy(t, examples)
    /\ pc' = [pc EXCEPT ![t] = "rel"]
    /\ UNCHANGED <<notBuffer, last_learn_index, lock, op, arg, retStats, opsLeft,
                   calls, clearedFrom, committed, lastMark, sinceMark,
                   marksSinceAdd, totalAtMark, considered>>

\* Variant: a consuming read, which also moves the cursor to the end.
get_new_examples_consume(t) ==
    /\ pc[t] = "cs"
    /\ op[t] \in {"get_new_examples", "get_new_corrections"}
    /\ ReturnCopy(t, SliceFrom(examples, last_learn_index))
    /\ last_learn_index' = Len(examples)
    /\ pc' = [pc EXCEPT ![t] = "rel"]
    /\ considered' = Seen(t, SliceFrom(examples, last_learn_index))
    /\ UNCHANGED <<notBuffer, lock, op, arg, retStats, opsLeft,
                   calls, clearedFrom, committed, lastMark, sinceMark,
                   marksSinceAdd, totalAtMark>>

\* Variant: the slice starts one element early (examples[last_learn_index-1:]).
get_new_examples_early(t) ==
    /\ pc[t] = "cs"
    /\ op[t] \in {"get_new_examples", "get_new_corrections"}
    /\ ReturnCopy(t, SliceFrom(examples, IF last_learn_index > 0
                                         THEN last_learn_index - 1 ELSE 0))
    /\ pc' = [pc EXCEPT ![t] = "rel"]
    /\ considered' = Seen(t, SliceFrom(examples, last_learn_index))
    /\ UNCHANGED <<notBuffer, last_learn_index, lock, op, arg, retStats, opsLeft,
                   calls, clearedFrom, committed, lastMark, sinceMark,
                   marksSinceAdd, totalAtMark>>

\* return self.examples[self.last_learn_index:].copy()
\* (also the call made by get_new_corrections)
get_new_examples(t) ==
    /\ pc[t] = "cs"
    /\ op[t] \in {"get_new_examples", "get_new_corrections"}
    /\ ReturnCopy(t, SliceFrom(examples, last_learn_index))
    /\ pc' = [pc EXCEPT ![t] = "rel"]
    /\ considered' = Seen(t, SliceFrom(examples, last_learn_index))
    /\ UNCHANGED <<notBuffer, last_learn_index, lock, op, arg, retStats, opsLeft,
                   calls, clearedFrom, committed, lastMark, sinceMark,
                   marksSinceAdd, totalAtMark>>

\* Variant: self.last_learn_index += len(self.examples)
mark_learned_accumulate(t) ==
    /\ pc[t] = "cs"
    /\ op[t] = "mark_learned"
    /\ last_learn_index' = last_learn_index + Len(examples)
    /\ pc' = [pc EXCEPT ![t] = "rel"]
    /\ committed' = [examples |-> examples, last_learn_index |-> last_learn_index']
    /\ lastMark' = t
    /\ sinceMark' = <<>>
    /\ marksSinceAdd' = IF marksSinceAdd < 2 THEN marksSinceAdd + 1 ELSE 2
    /\ totalAtMark' = Len(examples)
    /\ UNCHANGED <<notBuffer, lists, lock, op, arg, retList, retStats, opsLeft,
                   calls, clearedFrom, snap, readClean, considered>>

\* Variant: self.last_learn_index = len(self.examples) - 1
mark_learned_short(t) ==
    /\ pc[t] = "cs"
    /\ op[t] = "mark_learned"
    /\ last_learn_index' = IF examples = <<>> THEN 0 ELSE Len(examples) - 1
    /\ pc' = [pc EXCEPT ![t] = "rel"]
    /\ committed' = [examples |-> examples, last_learn_index |-> last_learn_index']
    /\ lastMark' = t
    /\ sinceMark' = <<>>
    /\ marksSinceAdd' = IF marksSinceAdd < 2 THEN marksSinceAdd + 1 ELSE 2
    /\ totalAtMark' = Len(examples)
    /\ UNCHANGED <<notBuffer, lists, lock, op, arg, retList, retStats, opsLeft,
                   calls, clearedFrom, snap, readClean, considered>>

\* self.last_learn_index = len(self.examples)
mark_learned(t) ==
    /\ pc[t] = "cs"
    /\ op[t] = "mark_learned"
    /\ last_learn_index' = Len(examples)
    /\ pc' = [pc EXCEPT ![t] = "rel"]
    /\ committed' = [examples |-> examples, last_learn_index |-> Len(examples)]
    /\ lastMark' = t
    /\ sinceMark' = <<>>
    /\ marksSinceAdd' = IF marksSinceAdd < 2 THEN marksSinceAdd + 1 ELSE 2
    /\ totalAtMark' = Len(examples)
    /\ UNCHANGED <<notBuffer, lists, lock, op, arg, retList, retStats, opsLeft,
                   calls, clearedFrom, snap, readClean, considered>>

\* the mapping built by get_stats
\* variant: the counts are taken over the whole list, not over the slice
Stats_whole(lst, lli) ==
    [total_examples   |-> Len(lst),
     new_examples     |-> Len(lst),
     new_corrections  |-> Len(SelectSeq(lst, IsCorrection)),
     llm_observations |-> Len(SelectSeq(lst, IsLlm)),
     human_examples   |-> Len(SelectSeq(lst, IsHumanPlain))]

Stats(lst, lli) ==
    LET new_examples == SliceFrom(lst, lli) IN
    [total_examples   |-> Len(lst),
     new_examples     |-> Len(new_examples),
     new_corrections  |-> Len(SelectSeq(new_examples, IsCorrection)),
     llm_observations |-> Len(SelectSeq(new_examples, IsLlm)),
     human_examples   |-> Len(SelectSeq(new_examples, IsHumanPlain))]

\* variant: a ratio over total_examples is computed too, which divides by
\* zero on the empty buffer, so the call does not return
get_stats_ratio(t) ==
    /\ pc[t] = "cs"
    /\ op[t] = "get_stats"
    /\ examples # <<>>
    /\ retStats' = [retStats EXCEPT ![t] = Stats(examples, last_learn_index)]
    /\ pc' = [pc EXCEPT ![t] = "rel"]
    /\ UNCHANGED <<notBuffer, lists, last_learn_index, lock, op, arg, retList, opsLeft, hist>>

get_stats(t) ==
    /\ pc[t] = "cs"
    /\ op[t] = "get_stats"
    /\ retStats' = [retStats EXCEPT ![t] = Stats(examples, last_learn_index)]
    /\ pc' = [pc EXCEPT ![t] = "rel"]
    /\ UNCHANGED <<notBuffer, lists, last_learn_index, lock, op, arg, retList, opsLeft, hist>>

\* clear, first statement: self.examples.clear()
clear_examples(t) ==
    /\ pc[t] = "cs"
    /\ op[t] = "clear"
    /\ lists' = [lists EXCEPT ![BufRef] = <<>>]
    /\ pc' = [pc EXCEPT ![t] = "cs2"]
    /\ clearedFrom' = last_learn_index
    /\ UNCHANGED <<notBuffer, last_learn_index, lock, op, arg, retList, retStats, opsLeft,
                   calls, snap, committed, lastMark, sinceMark, readClean,
                   marksSinceAdd, totalAtMark, considered>>

\* Variant: clear() forgets to reset the cursor.
clear_index_kept(t) ==
    /\ pc[t] = "cs2"
    /\ last_learn_index' = last_learn_index
    /\ pc' = [pc EXCEPT ![t] = "rel"]
    /\ committed' = [examples |-> examples, last_learn_index |-> last_learn_index]
    /\ lastMark' = 0
    /\ sinceMark' = <<>>
    /\ marksSinceAdd' = 0
    /\ totalAtMark' = 0
    /\ UNCHANGED <<notBuffer, lists, lock, op, arg, retList, retStats, opsLeft,
                   calls, clearedFrom, snap, readClean, considered>>

\* clear, second statement: self.last_learn_index = 0
clear_index(t) ==
    /\ pc[t] = "cs2"
    /\ last_learn_index' = 0
    /\ pc' = [pc EXCEPT ![t] = "rel"]
    /\ committed' = [examples |-> examples, last_learn_index |-> 0]
    /\ lastMark' = 0
    /\ sinceMark' = <<>>
    /\ marksSinceAdd' = 0
    /\ totalAtMark' = 0
    /\ UNCHANGED <<notBuffer, lists, lock, op, arg, retList, retStats, opsLeft,
                   calls, clearedFrom, snap, readClean, considered>>

\* `with self.lock:` exit, then the method returns (the caller keeps a
\* returned list, nothing else); get_new_corrections still has its list
\* comprehension to run
Release(t) ==
    /\ pc[t] = "rel"
    /\ lock' = 0
    /\ pc' = [pc EXCEPT ![t] = IF op[t] = "get_new_corrections" THEN "filt" ELSE "idle"]
    /\ op' = [op EXCEPT ![t] = IF @ \in ListOps THEN @ ELSE "none"]
    /\ arg' = [arg EXCEPT ![t] = 0]
    /\ retStats' = [retStats EXCEPT ![t] = NoStats]
    /\ UNCHANGED <<notBuffer, lists, last_learn_index, retList, opsLeft, hist>>

\* get_new_corrections: [e for e in <returned copy> if e.is_correction]
get_new_corrections(t) ==
    /\ pc[t] = "filt"
    /\ ReturnCopy(t, SelectSeq(lists[retList[t]], IsCorrection))
    /\ pc' = [pc EXCEPT ![t] = "idle"]
    /\ UNCHANGED <<notBuffer, last_learn_index, lock, op, arg, retStats, opsLeft,
                   calls, clearedFrom, committed, lastMark, sinceMark,
                   marksSinceAdd, totalAtMark, considered>>

\* The caller mutates the list it was given (here: lst.pop()).
MutateReturned(t) ==
    /\ pc[t] = "idle"
    /\ retList[t] # NoRef
    /\ lists[retList[t]] # <<>>
    /\ lists' = [lists EXCEPT ![retList[t]] = SubSeq(@, 1, Len(@) - 1)]
    /\ snap' = [snap EXCEPT ![t] = SubSeq(@, 1, Len(@) - 1)]
    /\ UNCHANGED <<notBuffer, last_learn_index, lock, pc, op, arg, retList, retStats,
                   opsLeft, calls, clearedFrom, committed, lastMark,
                   sinceMark, readClean, marksSinceAdd, totalAtMark,
                   considered>>

Next ==
    \E t \in Threads :
        \/ Call(t)
        \/ Delegate(t)
        \/ Acquire(t)
        \/ add_llm_observation(t)
        \/ add_human_example(t)
        \/ add_human_correction(t)
        \/ get_all_examples(t)
        \/ get_new_examples(t)
        \/ mark_learned(t)
        \/ get_stats(t)
        \/ clear_examples(t)
        \/ clear_index(t)
        \/ Release(t)
        \/ get_new_corrections(t)
        \/ MutateReturned(t)

Spec == Init /\ [][Next]_vars

\* ------------------------------------------------ orchestrator and producers
\* The learning cycle of the orchestrator: get_new_examples, (learn),
\* mark_learned, again and again, while the other threads only add examples.
CycleCall(t) ==
    IF t = Orch
    THEN Invoke(t, IF op[t] = "get_new_examples" THEN "mark_learned"
                                                  ELSE "get_new_examples")
    ELSE \E o \in AddOps : Invoke(t, o)

NextOrch ==
    \E t \in Threads :
        \/ CycleCall(t)
        \/ Acquire(t)
        \/ add_llm_observation(t)
        \/ add_human_example(t)
        \/ add_human_correction(t)
        \/ get_new_examples(t)
        \/ mark_learned(t)
        \/ Release(t)

SpecOrch == InitOrch /\ [][NextOrch]_vars

\* ------------------------------------------------------------- fairness
\* A thread that is inside an operation keeps running; a thread waiting for
\* the lock gets it if the lock is free again and again.  Nothing obliges a
\* thread to start a new call.
Progress(t) ==
    \/ Delegate(t)
    \/ add_llm_observation(t)
    \/ add_human_example(t)
    \/ add_human_correction(t)
    \/ get_all_examples(t)
    \/ get_new_examples(t)
    \/ mark_learned(t)
    \/ get_stats(t)
    \/ clear_examples(t)
    \/ clear_index(t)
    \/ Release(t)
    \/ get_new_corrections(t)

LiveSpec ==
    /\ InitLive
    /\ [][Next]_vars
    /\ \A t \in Threads : WF_vars(Progress(t)) /\ SF_vars(Acquire(t))

\* ------------------------------------------------------------ properties
\* ------------------------------------------------------------ coordinators
\* Optional[List[Rule]]: None, the empty list, a non-empty list
RuleArgs == {"None", "empty", "some"}

\* the three kinds of example the add_* operations create
ExampleKinds == {<<"llm", FALSE>>, <<"human", FALSE>>, <<"human", TRUE>>}

\* the contents a buffer can have after at most MaxBuf add_* calls
Buffers ==
    UNION {{[i \in 1..n |-> ObservedExample(k[i][1], k[i][2], i)] :
                k \in [1..n -> ExampleKinds]} : n \in 0..MaxBuf}

\* a buffer that holds the examples b with the cursor at c, nobody using it
Filled(b, c) ==
    /\ lists = [r \in 0..NThreads |-> IF r = BufRef THEN b ELSE <<>>]
    /\ last_learn_index = c
    /\ lock = 0
    /\ pc = [t \in Threads |-> "idle"]
    /\ op = [t \in Threads |-> "none"]
    /\ arg = [t \in Threads |-> 0]
    /\ retList = [t \in Threads |-> NoRef]
    /\ retStats = [t \in Threads |-> NoStats]
    /\ calls = Len(b)
    /\ clearedFrom = -1
    /\ snap = [t \in Threads |-> <<>>]
    /\ committed = [examples |-> b, last_learn_index |-> c]
    /\ lastMark = 0
    /\ sinceMark = SliceFrom(b, c)
    /\ readClean = [t \in Threads |-> FALSE]
    /\ marksSinceAdd = 0
    /\ totalAtMark = c
    /\ considered = {}

\* a SimpleCoordinator with any thresholds and a buffer in any state
InitCoord ==
    /\ \E b \in Buffers : \E c \in 0..Len(b) : Filled(b, c)
    /\ \E tt \in 0..MaxTrigger : \E ct \in 0..MaxCorrection : \E v \in BOOLEAN :
           NewCoordinator(tt, ct, v)
    /\ opsLeft = 0
    /\ NoEvaluation

\* variant: `not current_rules`, which an empty rule list satisfies too
IsFirstLearn_falsy(rules) == rules \in {"None", "empty"}

\* `current_rules is None`
IsFirstLearn(rules) == rules = "None"

\* variant: corrections trigger the first learn too
ShouldLearn_any(stats, rules, tt, ct) ==
    \/ stats.new_examples >= tt
    \/ stats.new_corrections >= ct

\* variant: a threshold is met by exactly that many, not by more
ShouldLearn_exactly(stats, rules, tt, ct) ==
    IF IsFirstLearn(rules)
    THEN stats.new_examples = tt
    ELSE \/ stats.new_examples = tt
         \/ stats.new_corrections = ct

\* should_learn, with tt = self.trigger_threshold, ct = self.correction_threshold
ShouldLearn(stats, rules, tt, ct) ==
    LET new_examples_count == stats.new_examples
        corrections_count  == stats.new_corrections IN
    IF IsFirstLearn(rules)
    THEN new_examples_count >= tt
    ELSE \/ new_examples_count >= tt
         \/ corrections_count >= ct

\* variant: the test on the examples comes before the one on the corrections
Branch_examples_first(stats, rules, tt, ct) ==
    IF IsFirstLearn(rules) THEN "First learn"
    ELSE IF stats.new_examples >= tt THEN "Examples accumulated"
    ELSE IF stats.new_corrections >= ct THEN "Corrections accumulated"
    ELSE "Not ready"

\* the branch taken: it fixes reasoning, strategy and max_iterations
Branch(stats, rules, tt, ct) ==
    LET new_examples_count == stats.new_examples
        corrections_count  == stats.new_corrections IN
    IF IsFirstLearn(rules) THEN "First learn"
    ELSE IF corrections_count >= ct THEN "Corrections accumulated"
    ELSE IF new_examples_count >= tt THEN "Examples accumulated"
    ELSE "Not ready"

\* the CoordinationDecision a SimpleCoordinator with thresholds tt, ct builds
\* from the stats
SimpleDecision(stats, rules, tt, ct) ==
    LET b == Branch(stats, rules, tt, ct) IN
    [should_learn   |-> ShouldLearn(stats, rules, tt, ct),
     strategy       |-> CASE b = "First learn" -> "balanced"
                          [] b = "Corrections accumulated" -> "corrections_first"
                          [] b = "Examples accumulated" -> "diversity"
                          [] b = "Not ready" -> "balanced",
     reasoning      |-> b,
     max_iterations |-> IF b = "Corrections accumulated" THEN 2 ELSE 3,
     metadata       |-> [buffer_stats |-> stats,
                         trigger_threshold |-> tt,
                         correction_threshold |-> ct]]

\* variant: a decision to learn advances the cursor of the buffer
should_trigger_learning_advance(rules) ==
    /\ lock = 0
    /\ LET stats == Stats(examples, last_learn_index)
           d == SimpleDecision(stats, rules, trigger_threshold, correction_threshold) IN
        /\ decision' = d
        /\ stdout' = IF verbose /\ d.should_learn THEN 2 ELSE 0
        /\ last_learn_index' = IF d.should_learn THEN Len(examples) ELSE last_learn_index
    /\ current_rules' = rules
    /\ lastCall' = [coordinator |-> "SimpleCoordinator", method |-> "should_trigger_learning"]
    /\ raised' = "none"
    /\ UNCHANGED <<lists, lock, pc, op, arg, retList, retStats, hist, opsLeft, evalVars,
                   trigger_threshold, correction_threshold, verbose, analysis>>

\* SimpleCoordinator.should_trigger_learning(buffer, rules); buffer.get_stats()
\* takes the lock of the buffer
should_trigger_learning(rules) ==
    /\ lock = 0
    /\ LET stats == Stats(examples, last_learn_index)
           d == SimpleDecision(stats, rules, trigger_threshold, correction_threshold) IN
        /\ decision' = d
        /\ stdout' = IF verbose /\ d.should_learn THEN 2 ELSE 0
    /\ current_rules' = rules
    /\ lastCall' = [coordinator |-> "SimpleCoordinator", method |-> "should_trigger_learning"]
    /\ raised' = "none"
    /\ UNCHANGED <<bufState, opsLeft, evalVars, trigger_threshold, correction_threshold, verbose, analysis>>

\* variant: refinement is reported ready only on enough new examples
Analysis_strict(stats) ==
    [total_examples   |-> stats.total_examples,
     new_examples     |-> stats.new_examples,
     new_corrections  |-> stats.new_corrections,
     llm_observations |-> stats.llm_observations,
     human_examples   |-> stats.human_examples,
     ready_for_first_learn |-> stats.new_examples >= trigger_threshold,
     ready_for_refinement  |-> stats.new_examples >= trigger_threshold]

\* the mapping analyze_buffer builds from the stats
Analysis(stats) ==
    [total_examples   |-> stats.total_examples,
     new_examples     |-> stats.new_examples,
     new_corrections  |-> stats.new_corrections,
     llm_observations |-> stats.llm_observations,
     human_examples   |-> stats.human_examples,
     ready_for_first_learn |-> stats.new_examples >= trigger_threshold,
     ready_for_refinement  |-> \/ stats.new_examples >= trigger_threshold
                               \/ stats.new_corrections >= correction_threshold]

analyze_buffer ==
    /\ lock = 0
    /\ analysis' = Analysis(Stats(examples, last_learn_index))
    /\ lastCall' = [coordinator |-> "SimpleCoordinator", method |-> "analyze_buffer"]
    /\ raised' = "none"
    /\ stdout' = 0
    /\ UNCHANGED <<bufState, opsLeft, evalVars, trigger_threshold, correction_threshold, verbose,
                   current_rules, decision>>

\* variant: the coordinator adapts, it asks for more examples after a
\* learning run that was evaluated
on_learning_complete_adapt(total) ==
    /\ stdout' = IF verbose THEN 2 + (IF total > 0 THEN 1 ELSE 0) ELSE 0
    /\ trigger_threshold' = IF total > 0 THEN trigger_threshold + 1 ELSE trigger_threshold
    /\ lastCall' = [coordinator |-> "SimpleCoordinator", method |-> "on_learning_complete"]
    /\ raised' = "none"
    /\ UNCHANGED <<bufState, opsLeft, evalVars, correction_threshold, verbose,
                   current_rules, decision, analysis>>

\* SimpleCoordinator.on_learning_complete(old_rules, new_rules, metrics),
\* total = metrics.get("total", 0): it prints two or three lines (old_rules
\* only picks the wording of the first)
on_learning_complete(total) ==
    /\ stdout' = IF verbose THEN 2 + (IF total > 0 THEN 1 ELSE 0) ELSE 0
    /\ lastCall' = [coordinator |-> "SimpleCoordinator", method |-> "on_learning_complete"]
    /\ raised' = "none"
    /\ UNCHANGED <<bufState, opsLeft, evalVars, trigger_threshold, correction_threshold, verbose,
                   current_rules, decision, analysis>>

\* AgenticCoordinator: the constructor and the three methods raise
AgenticMethods ==
    {"__init__", "should_trigger_learning", "analyze_buffer", "on_learning_complete"}

\* variant: analyze_buffer falls back on the plain statistics
AgenticCoordinator_fallback(m) ==
    /\ lastCall' = [coordinator |-> "AgenticCoordinator", method |-> m]
    /\ raised' = IF m = "analyze_buffer" THEN "none" ELSE "NotImplementedError"
    /\ analysis' = IF m = "analyze_buffer"
                   THEN Analysis(Stats(examples, last_learn_index)) ELSE analysis
    /\ stdout' = 0
    /\ UNCHANGED <<bufState, opsLeft, evalVars, trigger_threshold, correction_threshold, verbose,
                   current_rules, decision>>

AgenticCoordinator(m) ==
    /\ lastCall' = [coordinator |-> "AgenticCoordinator", method |-> m]
    /\ raised' = "NotImplementedError"
    /\ stdout' = 0
    /\ UNCHANGED <<bufState, opsLeft, evalVars, trigger_threshold, correction_threshold, verbose,
                   current_rules, decision, analysis>>

NextCoord ==
    \/ \E rules \in RuleArgs : should_trigger_learning(rules)
    \/ analyze_buffer
    \/ \E total \in 0..1 : on_learning_complete(total)
    \/ \E m \in AgenticMethods : AgenticCoordinator(m)

SpecCoord == InitCoord /\ [][NextCoord]_vars

\* ------------------------------------------------------------- evaluator
\* A span is a mapping with text, start and end.  A float that the code gets
\* by dividing two integers is kept as the pair <<numerator, denominator>>,
\* denominator > 0; 0.0 is <<0, 1>>.
Span(t, s, e) == [text |-> t, start |-> s, end |-> e]

\* the spans the lists are made of: equal intervals with different texts,
\* nested, disjoint and empty intervals
Spans ==
    {Span("A", 0, 1), Span("B", 0, 1), Span("A", 0, 2), Span("A", 0, 3),
     Span("B", 2, 3), Span("A", 1, 1)}

SpanLists == UNION {[1..n -> Spans] : n \in 0..MaxSpans}

\* values of iou_threshold: 0.0, the default 0.5, and 1.0
IouThresholds == {<<0, 1>>, <<1, 2>>, <<1, 1>>}

Zero == <<0, 1>>
Less(x, y) == x[1] * y[2] < y[1] * x[2]
Geq(x, y)  == ~Less(x, y)

Max(a, b) == IF a >= b THEN a ELSE b
Min(a, b) == IF a <= b THEN a ELSE b
Abs(a)    == IF a >= 0 THEN a ELSE -a

\* variant: no test of the union before the division
span_iou_nocheck(span1, span2) ==
    LET inter_start  == Max(span1.start, span2.start)
        inter_end    == Min(span1.end, span2.end)
        intersection == Max(0, inter_end - inter_start)
        union == (span1.end - span1.start) + (span2.end - span2.start) - intersection
    IN <<intersection, union>>

span_iou(span1, span2) ==
    LET inter_start  == Max(span1.start, span2.start)
        inter_end    == Min(span1.end, span2.end)
        intersection == Max(0, inter_end - inter_start)
        union == (span1.end - span1.start) + (span2.end - span2.start) - intersection
    IN IF union = 0 THEN Zero ELSE <<intersection, union>>

boundary_distance(pred_span, gold_span) ==
    LET start_error == Abs(pred_span.start - gold_span.start)
        end_error   == Abs(pred_span.end - gold_span.end)
    IN (start_error + end_error) \div 2

\* the loop of find_best_match from index idx (0-based) on
RECURSIVE BestFrom(_, _, _, _, _)
BestFrom(pred_span, gold_spans, idx, best_idx, best_iou) ==
    IF idx >= Len(gold_spans) THEN <<best_idx, best_iou>>
    ELSE LET iou == span_iou(pred_span, gold_spans[idx + 1]) IN
         IF Less(best_iou, iou)
         THEN BestFrom(pred_span, gold_spans, idx + 1, idx, iou)
         ELSE BestFrom(pred_span, gold_spans, idx + 1, best_idx, best_iou)

\* variant: the best span is returned whatever the threshold
find_best_match_loose(pred_span, gold_spans, threshold) ==
    BestFrom(pred_span, gold_spans, 0, -1, Zero)

find_best_match(pred_span, gold_spans, threshold) ==
    LET best == BestFrom(pred_span, gold_spans, 0, -1, Zero) IN
    IF Geq(best[2], threshold) THEN best ELSE <<-1, Zero>>

\* same text and position
IsExact(pred, gold) ==
    pred.text = gold.text /\ pred.start = gold.start /\ pred.end = gold.end

\* variant: the inner loop does not skip the consumed gold indices
FirstExact_any(pred) ==
    LET hits == {g \in 0..(Len(gold_standard) - 1) :
                    IsExact(pred, gold_standard[g + 1])}
    IN IF hits = {} THEN -1 ELSE CHOOSE g \in hits : \A h \in hits : g <= h

\* the inner loop of evaluate_spans: the first gold index that is not
\* consumed and matches pred exactly, or -1
FirstExact(pred) ==
    LET hits == {g \in 0..(Len(gold_standard) - 1) :
                    g \notin matched_gold /\ IsExact(pred, gold_standard[g + 1])}
    IN IF hits = {} THEN -1 ELSE CHOOSE g \in hits : \A h \in hits : g <= h

\* evaluate_spans was called with any two lists of spans
InitEval ==
    /\ NewBuffer(0)
    /\ DefaultCoordinator
    /\ \E P \in SpanLists : \E G \in SpanLists :
       \E emo \in BOOLEAN : \E thr \in IouThresholds :
           Evaluation(P, G, emo, thr, "run")

\* variant: the early return reports no false positive
evaluate_spans_empty_nofp ==
    /\ evalpc = "run"
    /\ gold_standard = <<>>
    /\ metrics' = [exact_matches |-> 0,
                   partial_matches |-> 0,
                   false_positives |-> 0,
                   false_negatives |-> 0,
                   precision |-> Zero,
                   recall |-> Zero,
                   f1 |-> Zero,
                   accuracy_exact |-> Zero,
                   accuracy_partial |-> Zero,
                   boundary_errors |-> <<>>]
    /\ evalpc' = "done"
    /\ UNCHANGED <<bufState, opsLeft, coordVars, call, result, predictions, gold_standard,
                   exact_match_only, iou_threshold, next_pred, matched_gold,
                   exact_matches, partial_matches, boundary_errors>>

\* `if not gold_standard: return {...}`
evaluate_spans_empty ==
    /\ evalpc = "run"
    /\ gold_standard = <<>>
    /\ metrics' = [exact_matches |-> 0,
                   partial_matches |-> 0,
                   false_positives |-> Len(predictions),
                   false_negatives |-> 0,
                   precision |-> Zero,
                   recall |-> Zero,
                   f1 |-> Zero,
                   accuracy_exact |-> Zero,
                   accuracy_partial |-> Zero,
                   boundary_errors |-> <<>>]
    /\ evalpc' = "done"
    /\ UNCHANGED <<bufState, opsLeft, coordVars, call, result, predictions, gold_standard,
                   exact_match_only, iou_threshold, next_pred, matched_gold,
                   exact_matches, partial_matches, boundary_errors>>

\* variant: a partial match does not test `best_idx not in matched_gold`
evaluate_spans_loop_reuse ==
    /\ evalpc = "run"
    /\ gold_standard # <<>>
    /\ next_pred < Len(predictions)
    /\ LET pred == predictions[next_pred + 1]
           gold_idx == FirstExact(pred)
           found_exact == gold_idx # -1
           best == find_best_match(pred, gold_standard, iou_threshold)
           best_idx == best[1]
           iou == best[2]
       IN
       IF found_exact
       THEN /\ exact_matches' = exact_matches + 1
            /\ matched_gold' = matched_gold \cup {gold_idx}
            /\ UNCHANGED <<partial_matches, boundary_errors>>
       ELSE IF ~exact_match_only /\ best_idx # -1
       THEN /\ partial_matches' = partial_matches + 1
            /\ matched_gold' = matched_gold \cup {best_idx}
            /\ boundary_errors' = Append(boundary_errors,
                  [predicted |-> pred,
                   gold |-> gold_standard[best_idx + 1],
                   distance |-> boundary_distance(pred, gold_standard[best_idx + 1]),
                   iou |-> iou])
            /\ UNCHANGED exact_matches
       ELSE UNCHANGED <<exact_matches, partial_matches, matched_gold, boundary_errors>>
    /\ next_pred' = next_pred + 1
    /\ UNCHANGED <<bufState, opsLeft, coordVars, call, result, predictions, gold_standard,
                   exact_match_only, iou_threshold, metrics, evalpc>>

\* variant: a partial match does not consume the gold span
evaluate_spans_loop_partial_free ==
    /\ evalpc = "run"
    /\ gold_standard # <<>>
    /\ next_pred < Len(predictions)
    /\ LET pred == predictions[next_pred + 1]
           gold_idx == FirstExact(pred)
           found_exact == gold_idx # -1
           best == find_best_match(pred, gold_standard, iou_threshold)
           best_idx == best[1]
           iou == best[2]
       IN
       IF found_exact
       THEN /\ exact_matches' = exact_matches + 1
            /\ matched_gold' = matched_gold \cup {gold_idx}
            /\ UNCHANGED <<partial_matches, boundary_errors>>
       ELSE IF ~exact_match_only /\ best_idx # -1 /\ best_idx \notin matched_gold
       THEN /\ partial_matches' = partial_matches + 1
            /\ boundary_errors' = Append(boundary_errors,
                  [predicted |-> pred,
                   gold |-> gold_standard[best_idx + 1],
                   distance |-> boundary_distance(pred, gold_standard[best_idx + 1]),
                   iou |-> iou])
            /\ UNCHANGED <<exact_matches, matched_gold>>
       ELSE UNCHANGED <<exact_matches, partial_matches, matched_gold, boundary_errors>>
    /\ next_pred' = next_pred + 1
    /\ UNCHANGED <<bufState, opsLeft, coordVars, call, result, predictions, gold_standard,
                   exact_match_only, iou_threshold, metrics, evalpc>>

\* one turn of `for pred in predictions`
evaluate_spans_loop ==
    /\ evalpc = "run"
    /\ gold_standard # <<>>
    /\ next_pred < Len(predictions)
    /\ LET pred == predictions[next_pred + 1]
           gold_idx == FirstExact(pred)
           found_exact == gold_idx # -1
           best == find_best_match(pred, gold_standard, iou_threshold)
           best_idx == best[1]
           iou == best[2]
       IN
       IF found_exact
       THEN /\ exact_matches' = exact_matches + 1
            /\ matched_gold' = matched_gold \cup {gold_idx}
            /\ UNCHANGED <<partial_matches, boundary_errors>>
       ELSE IF ~exact_match_only /\ best_idx # -1 /\ best_idx \notin matched_gold
       THEN /\ partial_matches' = partial_matches + 1
            /\ matched_gold' = matched_gold \cup {best_idx}
            /\ boundary_errors' = Append(boundary_errors,
                  [predicted |-> pred,
                   gold |-> gold_standard[best_idx + 1],
                   distance |-> boundary_distance(pred, gold_standard[best_idx + 1]),
                   iou |-> iou])
            /\ UNCHANGED exact_matches
       ELSE UNCHANGED <<exact_matches, partial_matches, matched_gold, boundary_errors>>
    /\ next_pred' = next_pred + 1
    /\ UNCHANGED <<bufState, opsLeft, coordVars, call, result, predictions, gold_standard,
                   exact_match_only, iou_threshold, metrics, evalpc>>

\* the statements after the loop
evaluate_spans_return ==
    /\ evalpc = "run"
    /\ gold_standard # <<>>
    /\ next_pred = Len(predictions)
    /\ LET true_positives  == exact_matches + partial_matches
           false_positives == Len(predictions) - true_positives
           false_negatives == Len(gold_standard) - Cardinality(matched_gold)
           precision == IF true_positives + false_positives > 0
                        THEN <<true_positives, true_positives + false_positives>>
                        ELSE Zero
           recall    == IF true_positives + false_negatives > 0
                        THEN <<true_positives, true_positives + false_negatives>>
                        ELSE Zero
           \* 2 * (p * r) / (p + r) of p = a/b, r = c/d is 2ac / (ad + cb)
           f1 == IF precision[1] > 0 \/ recall[1] > 0
                 THEN <<2 * precision[1] * recall[1],
                        precision[1] * recall[2] + recall[1] * precision[2]>>
                 ELSE Zero
       IN metrics' = [exact_matches |-> exact_matches,
                      partial_matches |-> partial_matches,
                      true_positives |-> true_positives,
                      false_positives |-> false_positives,
                      false_negatives |-> false_negatives,
                      precision |-> precision,
                      recall |-> recall,
                      f1 |-> f1,
                      accuracy_exact |-> <<exact_matches, Len(gold_standard)>>,
                      accuracy_partial |-> <<true_positives, Len(gold_standard)>>,
                      boundary_errors |-> boundary_errors]
    /\ evalpc' = "done"
    /\ UNCHANGED <<bufState, opsLeft, coordVars, call, result, predictions, gold_standard,
                   exact_match_only, iou_threshold, next_pred, matched_gold,
                   exact_matches, partial_matches, boundary_errors>>

NextEval ==
    \/ evaluate_spans_empty
    \/ evaluate_spans_loop
    \/ evaluate_spans_return

SpecEval == InitEval /\ [][NextEval]_vars

\* ------------------------------------------- the helpers called on their own
\* spans with any offsets up to MaxOffset; nothing validates start <= end
OffsetSpans == {Span("A", st, en) : st \in 0..MaxOffset, en \in 0..MaxOffset}

InitFn ==
    /\ NewBuffer(0)
    /\ DefaultCoordinator
    /\ NoEvaluation

\* everything but the call and its result
notFn == <<bufState, opsLeft, coordVars, predictions, gold_standard,
           exact_match_only, iou_threshold, next_pred, matched_gold,
           exact_matches, partial_matches, boundary_errors, metrics, evalpc>>

call_span_iou ==
    /\ call = NoFn
    /\ \E a \in OffsetSpans : \E b \in OffsetSpans :
          /\ call' = [fn |-> "span_iou", span1 |-> a, span2 |-> b]
          /\ result' = span_iou(a, b)
    /\ UNCHANGED notFn

call_find_best_match ==
    /\ call = NoFn
    /\ \E p \in Spans : \E G \in SpanLists : \E t \in IouThresholds :
          /\ call' = [fn |-> "find_best_match", pred_span |-> p,
                       gold_spans |-> G, iou_threshold |-> t]
          /\ result' = find_best_match(p, G, t)
    /\ UNCHANGED notFn

NextFn ==
    \/ call_span_iou
    \/ call_find_best_match

SpecFn == InitFn /\ [][NextFn]_vars

\* ------------------------------------------- coordinator beside producers
\* Thread Orch asks a SimpleCoordinator whether to learn while the other
\* threads add examples and mark them learned.  should_trigger_learning is
\* split where other threads can run: the call, buffer.get_stats() (lock,
\* body, release), and the statements after it, which work on the mapping
\* get_stats returned.
InitConc ==
    /\ NewBuffer(MaxConcOps)
    /\ \E tt \in 0..MaxTrigger : \E ct \in 0..MaxCorrection :
           NewCoordinator(tt, ct, TRUE)
    /\ NoEvaluation

ProducerCall(t) ==
    /\ t # Orch
    /\ \E o \in AddOps \cup {"mark_learned"} : Invoke(t, o)

\* the orchestrator calls coordinator.should_trigger_learning(buffer, rules)
CoordinatorCall(t, rules) ==
    /\ t = Orch
    /\ pc[t] = "idle"
    /\ opsLeft > 0
    /\ opsLeft' = opsLeft - 1
    /\ op' = [op EXCEPT ![t] = "should_trigger_learning"]
    /\ pc' = [pc EXCEPT ![t] = "wait"]
    /\ current_rules' = rules
    /\ decision' = NoDecision
    /\ stdout' = 0
    /\ lastCall' = [coordinator |-> "SimpleCoordinator", method |-> "should_trigger_learning"]
    /\ raised' = "none"
    /\ UNCHANGED <<lists, last_learn_index, lock, arg, retList, retStats, hist,
                   evalVars, trigger_threshold, correction_threshold, verbose,
                   analysis>>

\* stats = buffer.get_stats(): the body, inside the lock
read_stats(t) ==
    /\ pc[t] = "cs"
    /\ op[t] = "should_trigger_learning"
    /\ retStats' = [retStats EXCEPT ![t] = Stats(examples, last_learn_index)]
    /\ pc' = [pc EXCEPT ![t] = "ret"]
    /\ UNCHANGED <<notBuffer, lists, last_learn_index, lock, op, arg, retList,
                   opsLeft, hist>>

\* get_stats leaves its `with self.lock` and returns the mapping
return_stats(t) ==
    /\ pc[t] = "ret"
    /\ lock' = 0
    /\ pc' = [pc EXCEPT ![t] = "decide"]
    /\ UNCHANGED <<notBuffer, lists, last_learn_index, op, arg, retList, retStats,
                   opsLeft, hist>>

\* variant: the counts are read from the buffer again, without the lock,
\* when the decision is taken
decide_reread(t) ==
    /\ pc[t] = "decide"
    /\ LET d == SimpleDecision(Stats(examples, last_learn_index), current_rules,
                               trigger_threshold, correction_threshold) IN
        /\ decision' = [d EXCEPT !.metadata.buffer_stats = retStats[t]]
        /\ stdout' = IF verbose /\ d.should_learn THEN 2 ELSE 0
    /\ pc' = [pc EXCEPT ![t] = "idle"]
    /\ op' = [op EXCEPT ![t] = "none"]
    /\ retStats' = [retStats EXCEPT ![t] = NoStats]
    /\ UNCHANGED <<lists, last_learn_index, lock, arg, retList, opsLeft, hist,
                   evalVars, trigger_threshold, correction_threshold, verbose,
                   current_rules, analysis, lastCall, raised>>

\* the statements of should_trigger_learning after get_stats
decide(t) ==
    /\ pc[t] = "decide"
    /\ LET d == SimpleDecision(retStats[t], current_rules,
                               trigger_threshold, correction_threshold) IN
        /\ decision' = d
        /\ stdout' = IF verbose /\ d.should_learn THEN 2 ELSE 0
    /\ pc' = [pc EXCEPT ![t] = "idle"]
    /\ op' = [op EXCEPT ![t] = "none"]
    /\ retStats' = [retStats EXCEPT ![t] = NoStats]
    /\ UNCHANGED <<lists, last_learn_index, lock, arg, retList, opsLeft, hist,
                   evalVars, trigger_threshold, correction_threshold, verbose,
                   current_rules, analysis, lastCall, raised>>

NextConc ==
    \E t \in Threads :
        \/ ProducerCall(t)
        \/ \E rules \in RuleArgs : CoordinatorCall(t, rules)
        \/ Acquire(t)
        \/ add_llm_observation(t)
        \/ add_human_example(t)
        \/ add_human_correction(t)
        \/ mark_learned(t)
        \/ Release(t)
        \/ read_stats(t)
        \/ return_stats(t)
        \/ decide(t)

SpecConc == InitConc /\ [][NextConc]_vars

InCriticalSection(t) == pc[t] \in {"cs", "cs2", "rel"}
InAdd(t)  == op[t] \in AddOps /\ pc[t] # "idle"
MidClear  == \E t \in Threads : pc[t] = "cs2"
Readers   == ListOps \cup {"get_stats", "mark_learned"}

TypeOK ==
    /\ lock \in 0..NThreads
    /\ \A t \in Threads : pc[t] \in {"idle", "deleg", "wait", "cs", "cs2", "rel", "filt"}

\* C1: between operations (whenever no clear() is half-way through its two
\* statements) the cursor satisfies 0 <= last_learn_index <= len(examples).
C1_CursorInRange ==
    ~MidClear => (0 <= last_learn_index /\ last_learn_index <= Len(examples))

\* a clear() that found the cursor at a positive value has returned
C1_Witness ==
    /\ clearedFrom > 0
    /\ \A t \in Threads : pc[t] = "idle"
    /\ last_learn_index = 0
    /\ examples = <<>>

\* C2 (as stated): the cursor never decreases and only mark_learned changes it.
C2_Original ==
    [][/\ last_learn_index' >= last_learn_index
       /\ last_learn_index' # last_learn_index =>
            \E t \in Threads : /\ op[t] = "mark_learned"
                               /\ pc[t] = "cs" /\ pc'[t] = "rel"]_vars

\* C2 (amended): only mark_learned and clear change the cursor; mark_learned
\* never decreases it, and clear sets it to 0.
C2_CursorMoves ==
    [][/\ last_learn_index' # last_learn_index =>
            \E t \in Threads :
                \/ op[t] = "mark_learned" /\ pc[t] = "cs" /\ pc'[t] = "rel"
                \/ op[t] = "clear" /\ pc[t] = "cs2" /\ pc'[t] = "rel"
       /\ last_learn_index' < last_learn_index =>
            /\ \E t \in Threads : op[t] = "clear" /\ pc[t] = "cs2" /\ pc'[t] = "rel"
            /\ last_learn_index' = 0]_vars

\* clear() has taken the cursor down from a positive value
C2_Witness ==
    /\ clearedFrom > 0
    /\ last_learn_index = 0
    /\ \E t \in Threads : op[t] = "clear" /\ pc[t] = "rel"

\* C3: with no clear, once no add_* call is in flight, the buffer holds one
\* example per add_* call made, each call's payload exactly once, and
\* get_stats reports that number as total_examples.
C3_NoLostAppend ==
    (clearedFrom = -1 /\ \A t \in Threads : ~InAdd(t)) =>
        /\ Len(examples) = calls
        /\ \A k \in 1..calls :
              Cardinality({i \in 1..Len(examples) : examples[i].input = k}) = 1
        /\ \A t \in Threads :
              (op[t] = "get_stats" /\ pc[t] = "rel") =>
                  retStats[t].total_examples = calls

\* all the add calls allowed have returned, made by different threads, and a
\* get_stats has just counted them
C3_Witness ==
    /\ clearedFrom = -1
    /\ calls = MaxAdds
    /\ \A t \in Threads : ~InAdd(t)
    /\ \E t \in Threads :
          /\ op[t] = "get_stats" /\ pc[t] = "rel"
          /\ retStats[t].total_examples = MaxAdds
    /\ \E i, j \in 1..Len(examples) : examples[i].source # examples[j].source

C5_NewAfterOwnMark ==
    \A t \in Threads :
        (op[t] = "get_new_examples" /\ pc[t] = "rel" /\ lastMark = t) =>
            lists[retList[t]] = sinceMark

\* the thread marked with examples in the buffer, another thread added, and
\* the thread's get_new_examples returned just the added one
C5_Witness ==
    \E t \in Threads :
        /\ op[t] = "get_new_examples" /\ pc[t] = "rel" /\ lastMark = t
        /\ last_learn_index > 0
        /\ lists[retList[t]] # <<>>

\* C6: a read made after mark_learned with no add in between gives an empty
\* get_new_examples, an empty get_new_corrections, and get_stats with
\* new_examples = 0 and total_examples as it was at the mark_learned.
C6_NothingNewAfterMark ==
    \A t \in Threads :
        /\ (op[t] = "get_new_examples" /\ pc[t] = "rel" /\ marksSinceAdd >= 1) =>
              lists[retList[t]] = <<>>
        /\ (op[t] = "get_new_corrections" /\ pc[t] = "idle" /\ readClean[t]) =>
              lists[retList[t]] = <<>>
        /\ (op[t] = "get_stats" /\ pc[t] = "rel" /\ marksSinceAdd >= 1) =>
              /\ retStats[t].new_examples = 0
              /\ retStats[t].total_examples = totalAtMark

\* get_stats ran right after a mark_learned on a non-empty buffer
C6_Witness ==
    \E t \in Threads :
        /\ op[t] = "get_stats" /\ pc[t] = "rel" /\ marksSinceAdd >= 1
        /\ retStats[t].total_examples > 0

\* C7: a returned list keeps the content it was returned with whatever the
\* buffer does afterwards, and mutating it leaves the buffer's list alone.
C7_SnapshotImmune ==
    /\ [](\A t \in Threads : retList[t] # NoRef => lists[retList[t]] = snap[t])
    /\ [][(\E t \in Threads : MutateReturned(t)) => examples' = examples]_vars

\* a thread still holds a non-empty snapshot after the buffer was cleared
C7_Witness ==
    \E t \in Threads :
        /\ op[t] \in {"get_all_examples", "get_new_examples"} /\ pc[t] = "idle"
        /\ retList[t] # NoRef
        /\ snap[t] # <<>>
        /\ examples = <<>>
        /\ clearedFrom >= 0

\* C8: at most one thread is inside a `with self.lock:` body, and a reader
\* entering its body sees the buffer as the last complete operation left it.
C8_MutualExclusion ==
    /\ Cardinality({t \in Threads : InCriticalSection(t)}) <= 1
    /\ \A t \in Threads :
          (pc[t] = "cs" /\ op[t] \in Readers) =>
              /\ examples = committed.examples
              /\ last_learn_index = committed.last_learn_index

\* a clear() is half done (the list emptied, the cursor not yet reset) while
\* a reader waits for the lock
C8_Witness ==
    \E t, u \in Threads :
        /\ pc[t] = "cs2" /\ examples # committed.examples
        /\ pc[u] = "wait" /\ op[u] \in Readers

\* C9: under fair scheduling every operation that was called returns, and no
\* thread ever waits for the lock while holding it.
C9_EveryCallReturns ==
    /\ \A t \in Threads : (pc[t] # "idle") ~> (pc[t] = "idle")
    /\ [](\A t \in Threads : pc[t] = "wait" => lock # t)

\* get_new_corrections waits for the lock while another thread holds it
C9_Witness ==
    \E t, u \in Threads :
        /\ t # u
        /\ op[t] = "get_new_corrections" /\ pc[t] = "wait"
        /\ lock = u

\* C10: a mark_learned that follows a mark_learned with no add in between
\* changes neither the cursor nor the sequence.
C10_MarkIdempotent ==
    [][\A t \in Threads :
          (op[t] = "mark_learned" /\ pc[t] = "cs" /\ pc'[t] = "rel"
             /\ marksSinceAdd >= 1) =>
                (last_learn_index' = last_learn_index /\ examples' = examples)]_vars

\* two mark_learned in a row on a non-empty buffer
C10_Witness ==
    /\ marksSinceAdd = 2
    /\ last_learn_index > 0

\* ------------------------------------------------------------ get_stats
\* positions (1-based) of the examples after the cursor
NewIdx == {i \in 1..Len(examples) : i > last_learn_index}

ZeroStats ==
    [total_examples |-> 0, new_examples |-> 0, new_corrections |-> 0,
     llm_observations |-> 0, human_examples |-> 0]

\* C11: the mapping get_stats returns has total_examples = len(examples)
\* and, counted over the examples after the cursor: new_examples = their
\* number, new_corrections = those with is_correction, llm_observations =
\* those with source "llm" that are no correction, human_examples = those
\* with source "human" that are no correction.
C11_StatsCounts ==
    \A t \in Threads :
        (pc[t] = "rel" /\ op[t] = "get_stats") =>
            /\ retStats[t].total_examples = Len(examples)
            /\ retStats[t].new_examples = Cardinality(NewIdx)
            /\ retStats[t].new_corrections =
                   Cardinality({i \in NewIdx : examples[i].is_correction})
            /\ retStats[t].llm_observations =
                   Cardinality({i \in NewIdx : examples[i].source = "llm"
                                                /\ ~examples[i].is_correction})
            /\ retStats[t].human_examples =
                   Cardinality({i \in NewIdx : examples[i].source = "human"
                                                /\ ~examples[i].is_correction})

\* get_stats has counted a correction and an LLM observation
C11_Witness ==
    \E t \in Threads :
        /\ pc[t] = "rel" /\ op[t] = "get_stats"
        /\ retStats[t].total_examples = 2
        /\ retStats[t].new_corrections = 1
        /\ retStats[t].llm_observations = 1

\* C12: no operation raises: a thread inside an operation can always take
\* its next step (a thread waiting for the lock is the one exception, it
\* waits), also on the empty buffer and right after clear.  On the empty
\* buffer get_stats returns 0 in all five fields and get_all_examples,
\* get_new_examples and get_new_corrections return empty lists.
C12_Total ==
    /\ [](\A t \in Threads :
            /\ pc[t] \in {"deleg", "cs", "cs2", "rel", "filt"} => ENABLED Progress(t)
            /\ (pc[t] = "rel" /\ examples = <<>> /\ op[t] = "get_stats") =>
                   retStats[t] = ZeroStats
            /\ (pc[t] = "rel" /\ examples = <<>> /\ op[t] \in ListOps) =>
                   (retList[t] # NoRef /\ lists[retList[t]] = <<>>))
    /\ [][\A t \in Threads :
            (pc[t] = "filt" /\ pc'[t] = "idle" /\ lists[retList[t]] = <<>>) =>
                (retList'[t] # NoRef /\ lists'[retList'[t]] = <<>>)]_vars

\* get_stats has run on a buffer that was filled and then cleared
C12_Witness ==
    \E t \in Threads :
        /\ clearedFrom >= 0 /\ calls >= 1
        /\ examples = <<>>
        /\ pc[t] = "rel" /\ op[t] = "get_stats"
        /\ retStats[t] = ZeroStats

\* ---------------------------------------------------------- coordinators
NewExamples    == Cardinality(NewIdx)
NewCorrections == Cardinality({i \in NewIdx : examples[i].is_correction})

\* C13: with current_rules None, should_learn is true exactly when the
\* number of new examples reaches trigger_threshold, whatever the number of
\* new corrections; strategy is "balanced" and max_iterations is 3.
C13_FirstLearn ==
    (decision # NoDecision /\ current_rules = "None") =>
        /\ decision.should_learn <=> (NewExamples >= trigger_threshold)
        /\ decision.strategy = "balanced"
        /\ decision.max_iterations = 3

\* one example short of the threshold, with corrections over theirs: no learn
C13_Witness ==
    /\ decision # NoDecision /\ current_rules = "None"
    /\ trigger_threshold = MaxTrigger
    /\ NewExamples = trigger_threshold - 1
    /\ correction_threshold > 0
    /\ NewCorrections >= correction_threshold
    /\ ~decision.should_learn

\* C14: with current_rules not None (the empty list included), should_learn
\* is true exactly when new_examples >= trigger_threshold or
\* new_corrections >= correction_threshold, both counted after the cursor.
C14_SubsequentLearn ==
    (decision # NoDecision /\ current_rules # "None") =>
        (decision.should_learn <=>
            (NewExamples >= trigger_threshold \/ NewCorrections >= correction_threshold))

\* an empty rule list, corrections alone trigger, some examples are behind
\* the cursor
C14_Witness ==
    /\ decision # NoDecision /\ current_rules = "empty"
    /\ last_learn_index > 0
    /\ correction_threshold > 0
    /\ NewCorrections >= correction_threshold
    /\ NewExamples < trigger_threshold
    /\ decision.should_learn

\* C15: with current_rules not None: enough corrections give
\* "corrections_first" with max_iterations 2, also when the examples reach
\* their threshold too; else enough examples give "diversity" with 3; else
\* should_learn is false and the strategy is "balanced".
C15_StrategyPriority ==
    (decision # NoDecision /\ current_rules # "None") =>
        IF NewCorrections >= correction_threshold
        THEN /\ decision.strategy = "corrections_first"
             /\ decision.max_iterations = 2
        ELSE IF NewExamples >= trigger_threshold
        THEN /\ decision.strategy = "diversity"
             /\ decision.max_iterations = 3
        ELSE /\ ~decision.should_learn
             /\ decision.strategy = "balanced"

\* both thresholds are reached at once: one LLM observation and one
\* correction against the thresholds (2, 1)
C15_Witness ==
    /\ decision # NoDecision /\ current_rules = "some"
    /\ trigger_threshold = 2 /\ correction_threshold = 1
    /\ NewExamples = 2 /\ NewCorrections = 1
    /\ \E i \in NewIdx : examples[i].source = "llm"
    /\ decision.should_learn
    /\ decision.strategy = "corrections_first"
    /\ decision.max_iterations = 2

\* C16: on the same buffer state, analyze_buffer's ready_for_first_learn
\* equals should_learn of should_trigger_learning(buffer, None), and its
\* ready_for_refinement equals should_learn of
\* should_trigger_learning(buffer, rules) for rules not None.
C16_Lockstep ==
    (analysis # NoAnalysis /\ decision # NoDecision) =>
        IF current_rules = "None"
        THEN analysis.ready_for_first_learn = decision.should_learn
        ELSE analysis.ready_for_refinement = decision.should_learn

\* both were called, the buffer is ready for refinement only
C16_Witness ==
    /\ analysis # NoAnalysis /\ decision # NoDecision
    /\ current_rules # "None"
    /\ analysis.ready_for_refinement
    /\ ~analysis.ready_for_first_learn
    /\ decision.should_learn

\* what the orchestrator acts on
Verdict(d) == <<d.should_learn, d.strategy, d.max_iterations>>

\* C17: on_learning_complete changes neither threshold nor the buffer, so
\* the decision should_trigger_learning would take, for any rules, is the
\* same after it as before it.
C17_OnCompleteFrame ==
    [][(lastCall'.coordinator = "SimpleCoordinator"
          /\ lastCall'.method = "on_learning_complete") =>
            /\ trigger_threshold' = trigger_threshold
            /\ correction_threshold' = correction_threshold
            /\ examples' = examples
            /\ last_learn_index' = last_learn_index
            /\ LET before == Stats(examples, last_learn_index)
                   after  == Stats(examples', last_learn_index') IN
               \A r \in RuleArgs :
                  Verdict(SimpleDecision(after, r, trigger_threshold', correction_threshold'))
                    = Verdict(SimpleDecision(before, r, trigger_threshold, correction_threshold))]_vars

\* on_learning_complete has printed its three lines after a decision to learn
C17_Witness ==
    /\ lastCall = [coordinator |-> "SimpleCoordinator", method |-> "on_learning_complete"]
    /\ decision # NoDecision /\ decision.should_learn
    /\ stdout = 3

\* C18: the constructor and every method of AgenticCoordinator raise
\* NotImplementedError: the call returns no decision and no mapping and
\* leaves the buffer as it was.
C18_AgenticRaises ==
    [][lastCall'.coordinator = "AgenticCoordinator" =>
            /\ raised' = "NotImplementedError"
            /\ decision' = decision
            /\ analysis' = analysis
            /\ examples' = examples
            /\ last_learn_index' = last_learn_index]_vars

\* should_trigger_learning of an AgenticCoordinator was called on a buffer
\* with new examples, nothing was returned
C18_Witness ==
    /\ lastCall = [coordinator |-> "AgenticCoordinator", method |-> "should_trigger_learning"]
    /\ raised = "NotImplementedError"
    /\ NewExamples > 0
    /\ decision = NoDecision
    /\ analysis = NoAnalysis

\* ------------------------------------------------------------- evaluator
\* the gold indices evaluate_spans has not consumed
Remaining == {g \in 0..(Len(gold_standard) - 1) : g \notin matched_gold}

\* C19: a prediction that has no exact match among the remaining gold spans
\* is counted as a partial match whenever exact_match_only is false and some
\* remaining gold span has IoU >= iou_threshold with it, and it consumes a
\* remaining gold span of the highest IoU.
C19_PartialOnRemaining ==
    [][(evalpc = "run" /\ next_pred' = next_pred + 1) =>
          LET pred == predictions[next_pred + 1]
              IoU(g) == span_iou(pred, gold_standard[g + 1])
              eligible == {g \in Remaining : Geq(IoU(g), iou_threshold)}
          IN (FirstExact(pred) = -1 /\ ~exact_match_only /\ eligible # {}) =>
                /\ partial_matches' = partial_matches + 1
                /\ \E g \in eligible :
                      /\ matched_gold' = matched_gold \cup {g}
                      /\ \A h \in eligible : Geq(IoU(g), IoU(h))]_vars

MetricKeys ==
    {"exact_matches", "partial_matches", "true_positives", "false_positives",
     "false_negatives", "precision", "recall", "f1", "accuracy_exact",
     "accuracy_partial", "boundary_errors"}

\* C20: the record evaluate_spans returns has the same eleven keys for
\* every input, empty gold included.
C20_FixedShape ==
    evalpc = "done" => DOMAIN metrics = MetricKeys

\* x and y are the same number
Same(x, y) == x[1] * y[2] = y[1] * x[2]

\* C21: with non-empty gold every match consumes one gold index that no
\* other prediction has consumed, and a prediction consumes at most one:
\* true_positives = exact_matches + partial_matches = number of consumed
\* gold indices, false_positives = len(predictions) - true_positives >= 0,
\* false_negatives = len(gold) - true_positives >= 0.
C21_MatchAccounting ==
    /\ (evalpc # "none" /\ gold_standard # <<>>) =>
          /\ exact_matches + partial_matches = Cardinality(matched_gold)
          /\ exact_matches + partial_matches <= next_pred
          /\ matched_gold \subseteq 0..(Len(gold_standard) - 1)
    /\ (evalpc = "done" /\ gold_standard # <<>>) =>
          /\ metrics.true_positives = metrics.exact_matches + metrics.partial_matches
          /\ metrics.true_positives = Cardinality(matched_gold)
          /\ metrics.false_positives = Len(predictions) - metrics.true_positives
          /\ metrics.false_positives >= 0
          /\ metrics.false_negatives = Len(gold_standard) - metrics.true_positives
          /\ metrics.false_negatives >= 0

\* predictions [A(0,1)] against gold [A(0,1), B(2,3)]: exact_matches 1,
\* false_negatives 1, precision 1, recall 1/2, f1 2/3
C21_Witness ==
    /\ evalpc = "done"
    /\ predictions = <<Span("A", 0, 1)>>
    /\ gold_standard = <<Span("A", 0, 1), Span("B", 2, 3)>>
    /\ metrics.exact_matches = 1
    /\ metrics.false_negatives = 1
    /\ Same(metrics.precision, <<1, 1>>)
    /\ Same(metrics.recall, <<1, 2>>)
    /\ Same(metrics.f1, <<2, 3>>)

\* C22: evaluate_spans(P, P) for a non-empty list P, duplicates allowed and
\* with either value of exact_match_only, yields exact_matches = len(P),
\* partial_matches = 0, false_positives = 0, false_negatives = 0, f1 = 1.
C22_SelfEvaluation ==
    (evalpc = "done" /\ predictions # <<>> /\ gold_standard = predictions) =>
        /\ metrics.exact_matches = Len(predictions)
        /\ metrics.partial_matches = 0
        /\ metrics.false_positives = 0
        /\ metrics.false_negatives = 0
        /\ Same(metrics.f1, <<1, 1>>)

\* a list that holds the same span twice was evaluated against itself
C22_Witness ==
    /\ evalpc = "done"
    /\ gold_standard = predictions
    /\ Len(predictions) = 2 /\ predictions[1] = predictions[2]
    /\ ~exact_match_only
    /\ metrics.exact_matches = 2

\* C23: with empty gold evaluate_spans returns, for every prediction list:
\* false_positives = len(predictions), false_negatives, exact_matches and
\* partial_matches 0, all five rates 0, boundary_errors empty.
C23_EmptyGold ==
    /\ (evalpc = "run" /\ gold_standard = <<>>) => ENABLED evaluate_spans_empty
    /\ (evalpc = "done" /\ gold_standard = <<>>) =>
          /\ metrics.false_positives = Len(predictions)
          /\ metrics.false_negatives = 0
          /\ metrics.exact_matches = 0
          /\ metrics.partial_matches = 0
          /\ Same(metrics.precision, Zero)
          /\ Same(metrics.recall, Zero)
          /\ Same(metrics.f1, Zero)
          /\ Same(metrics.accuracy_exact, Zero)
          /\ Same(metrics.accuracy_partial, Zero)
          /\ metrics.boundary_errors = <<>>

\* two predictions against empty gold: two false positives
C23_Witness ==
    /\ evalpc = "done"
    /\ gold_standard = <<>>
    /\ Len(predictions) = 2
    /\ metrics.false_positives = 2

\* ------------------------------------------------- find_best_match, span_iou
\* the indices (1-based) of the gold spans whose IoU with p is the maximum
TopIdx(p, G) ==
    {i \in 1..Len(G) :
        \A j \in 1..Len(G) : Geq(span_iou(p, G[i]), span_iou(p, G[j]))}

Least(S) == CHOOSE i \in S : \A j \in S : i <= j

\* C24 as stated: find_best_match returns (i, iou_i) for the smallest index
\* i attaining the maximum IoU whenever that maximum is >= t, else
\* (-1, 0.0).
C24_Original ==
    call.fn = "find_best_match" =>
        LET p == call.pred_span
            G == call.gold_spans
            top == TopIdx(p, G)
        IN IF top # {} /\ Geq(span_iou(p, G[Least(top)]), call.iou_threshold)
           THEN result = <<Least(top) - 1, span_iou(p, G[Least(top)])>>
           ELSE result = <<-1, Zero>>

\* C24: find_best_match returns (i, iou_i) for the smallest index i
\* attaining the maximum IoU whenever that maximum is > 0 and >= t, else
\* (-1, 0.0); it never returns a non-negative index whose IoU is below t,
\* and an empty list gives (-1, 0.0).
C24_BestMatch ==
    call.fn = "find_best_match" =>
        LET p == call.pred_span
            G == call.gold_spans
            top == TopIdx(p, G)
        IN /\ IF /\ top # {}
                 /\ Less(Zero, span_iou(p, G[Least(top)]))
                 /\ Geq(span_iou(p, G[Least(top)]), call.iou_threshold)
              THEN result = <<Least(top) - 1, span_iou(p, G[Least(top)])>>
              ELSE result = <<-1, Zero>>
           /\ result[1] >= 0 =>
                 Geq(span_iou(p, G[result[1] + 1]), call.iou_threshold)
           /\ G = <<>> => result = <<-1, Zero>>

\* two gold spans tie at the maximum: the first one is returned
C24_Witness ==
    /\ call.fn = "find_best_match"
    /\ Len(call.gold_spans) = 2
    /\ Same(span_iou(call.pred_span, call.gold_spans[1]),
            span_iou(call.pred_span, call.gold_spans[2]))
    /\ call.gold_spans[1] # call.gold_spans[2]
    /\ result[1] = 0

\* C25: span_iou(s, s) = 1 for every span with end > start, span_iou(a, b) =
\* span_iou(b, a) for all spans, and span_iou returns 0.0, without dividing,
\* when the union is 0.
C25_IouLaws ==
    call.fn = "span_iou" =>
        LET a == call.span1
            b == call.span2
            overlap == Max(0, Min(a.end, b.end) - Max(a.start, b.start))
        IN /\ (a = b /\ a.end > a.start) => (result[2] # 0 /\ Same(result, <<1, 1>>))
           /\ result = span_iou(b, a)
           /\ ((a.end - a.start) + (b.end - b.start) - overlap = 0) => result = Zero

\* span_iou of the longest span with itself
C25_Witness ==
    /\ call.fn = "span_iou"
    /\ call.span1 = call.span2
    /\ call.span1.start = 0 /\ call.span1.end = MaxOffset
    /\ result = <<MaxOffset, MaxOffset>>

\* pred could match gold partially: it is not the same span and its IoU
\* with it is positive and reaches the threshold
PartialCandidate(pred, gold) ==
    /\ ~IsExact(pred, gold)
    /\ Less(Zero, span_iou(pred, gold))
    /\ Geq(span_iou(pred, gold), iou_threshold)

\* C26: the matching depends on the order of the predictions.  When two
\* predictions compete for the only gold span, one equal to it and one a
\* partial candidate, the one that comes first gets it: the list with the
\* equal span first yields exact_matches 1 and partial_matches 0, the
\* permuted list yields exact_matches 0 and partial_matches 1.
C26_OrderDependent ==
    (evalpc = "done" /\ ~exact_match_only
       /\ Len(gold_standard) = 1 /\ Len(predictions) = 2) =>
        /\ (IsExact(predictions[1], gold_standard[1])
               /\ PartialCandidate(predictions[2], gold_standard[1])) =>
              (metrics.exact_matches = 1 /\ metrics.partial_matches = 0)
        /\ (PartialCandidate(predictions[1], gold_standard[1])
               /\ IsExact(predictions[2], gold_standard[1])) =>
              (metrics.exact_matches = 0 /\ metrics.partial_matches = 1)

\* the partial candidate came first and took the gold span of the exact one
C26_Witness ==
    /\ evalpc = "done" /\ ~exact_match_only
    /\ Len(gold_standard) = 1 /\ Len(predictions) = 2
    /\ PartialCandidate(predictions[1], gold_standard[1])
    /\ IsExact(predictions[2], gold_standard[1])
    /\ metrics.exact_matches = 0 /\ metrics.partial_matches = 1
    /\ metrics.false_positives = 1

\* ---------------------------------------------------------------- get_stats
\* C30: in the mapping get_stats returns, new_examples = new_corrections +
\* llm_observations + human_examples and new_corrections <= new_examples <=
\* total_examples; in the buffer every example with source "llm" is no
\* correction and every correction has source "human".
C30_StatsPartition ==
    /\ \A i \in 1..Len(examples) :
          /\ examples[i].source = "llm" => ~examples[i].is_correction
          /\ examples[i].is_correction => examples[i].source = "human"
    /\ \A t \in Threads :
          (pc[t] = "rel" /\ op[t] = "get_stats") =>
              /\ retStats[t].new_examples =
                    retStats[t].new_corrections + retStats[t].llm_observations
                      + retStats[t].human_examples
              /\ retStats[t].new_corrections <= retStats[t].new_examples
              /\ retStats[t].new_examples <= retStats[t].total_examples

\* get_stats has counted a correction and a plain human example
C30_Witness ==
    \E t \in Threads :
        /\ pc[t] = "rel" /\ op[t] = "get_stats"
        /\ retStats[t].new_examples = 2
        /\ retStats[t].new_corrections = 1
        /\ retStats[t].human_examples = 1

\* ---------------------------------------------------------- coordinators
\* C29: should_trigger_learning and analyze_buffer of SimpleCoordinator
\* leave the example sequence and the cursor unchanged (also when the
\* decision is to learn), so calling again with the same rules on the
\* unchanged buffer returns the same decision, and the same analysis.
C29_ReadOnly ==
    [][(lastCall'.coordinator = "SimpleCoordinator"
          /\ lastCall'.method \in {"should_trigger_learning", "analyze_buffer"}) =>
            /\ examples' = examples
            /\ last_learn_index' = last_learn_index
            /\ (lastCall'.method = "should_trigger_learning"
                   /\ decision # NoDecision
                   /\ current_rules' = current_rules) => decision' = decision
            /\ (lastCall'.method = "analyze_buffer" /\ analysis # NoAnalysis) =>
                   analysis' = analysis]_vars

\* a decision to learn was returned and the cursor is where it was, with
\* all the examples still new
C29_Witness ==
    /\ lastCall = [coordinator |-> "SimpleCoordinator", method |-> "should_trigger_learning"]
    /\ decision.should_learn
    /\ trigger_threshold > 0
    /\ last_learn_index = 0
    /\ Len(examples) = MaxBuf
    /\ analysis # NoAnalysis

\* C27: a decision is self-consistent under concurrent producers.  While
\* get_stats still holds the lock, the counts it computed are the counts of
\* the buffer as it is; the counts are carried unchanged to the decision,
\* whatever the other threads do meanwhile; and in every returned decision
\* should_learn, strategy and max_iterations are what the rule gives for the
\* counts and thresholds stored in that decision's metadata.
C27_SelfConsistent ==
    /\ [](\A t \in Threads :
            (pc[t] = "ret" /\ op[t] = "should_trigger_learning") =>
                /\ retStats[t].total_examples = Len(examples)
                /\ retStats[t].new_examples = Len(examples) - last_learn_index
                /\ retStats[t].new_corrections =
                       Cardinality({i \in (last_learn_index + 1)..Len(examples) :
                                       examples[i].is_correction})
                /\ retStats[t].llm_observations =
                       Cardinality({i \in (last_learn_index + 1)..Len(examples) :
                                       examples[i].source = "llm"})
                /\ retStats[t].human_examples =
                       Cardinality({i \in (last_learn_index + 1)..Len(examples) :
                                       examples[i].source = "human"
                                       /\ ~examples[i].is_correction}))
    /\ []((decision # NoDecision /\ lastCall.method = "should_trigger_learning") =>
            LET m == decision.metadata
                s == m.buffer_stats
                first == current_rules = "None"
                byCorr == s.new_corrections >= m.correction_threshold
                byEx == s.new_examples >= m.trigger_threshold
            IN  /\ decision.should_learn = IF first THEN byEx ELSE (byEx \/ byCorr)
                /\ decision.strategy =
                       IF first THEN "balanced"
                       ELSE IF byCorr THEN "corrections_first"
                       ELSE IF byEx THEN "diversity"
                       ELSE "balanced"
                /\ decision.max_iterations = IF ~first /\ byCorr THEN 2 ELSE 3
                /\ m.trigger_threshold = trigger_threshold
                /\ m.correction_threshold = correction_threshold)
    /\ [][\A t \in Threads :
            /\ (pc[t] \in {"ret", "decide"} /\ pc'[t] = "decide") =>
                   retStats'[t] = retStats[t]
            /\ (pc[t] = "decide" /\ pc'[t] = "idle") =>
                   decision'.metadata.buffer_stats = retStats[t]]_vars

\* a decision not to learn, returned after a producer added the example that
\* would have changed it: the counts are those of the earlier buffer
C27_Witness ==
    /\ pc[Orch] = "idle"
    /\ decision # NoDecision
    /\ ~decision.should_learn
    /\ decision.metadata.buffer_stats.total_examples < Len(examples)
    /\ ShouldLearn(Stats(examples, last_learn_index), current_rules,
                   trigger_threshold, correction_threshold)

\* C28: readiness is monotone between learns.  A step that keeps the cursor
\* and does not shorten the sequence (the add_* steps; no mark_learned that
\* moves the cursor, no clear) keeps should_learn true once it is true, for
\* either rules status, and keeps the strategy corrections_first.
C28_Monotone ==
    [][(last_learn_index' = last_learn_index /\ Len(examples') >= Len(examples)) =>
          \A rules \in RuleArgs :
             LET before == SimpleDecision(Stats(examples, last_learn_index), rules,
                                          trigger_threshold, correction_threshold)
                 after == SimpleDecision(Stats(examples', last_learn_index'), rules,
                                         trigger_threshold', correction_threshold')
             IN  /\ before.should_learn => after.should_learn
                 /\ before.strategy = "corrections_first" =>
                        after.strategy = "corrections_first"]_vars

\* a decision to learn with corrections first, and an example added after it
C28_Witness ==
    /\ decision # NoDecision
    /\ decision.should_learn
    /\ decision.strategy = "corrections_first"
    /\ trigger_threshold > 0
    /\ Len(examples) > decision.metadata.buffer_stats.total_examples
    /\ last_learn_index = 0

====
